---------------------------- MODULE Spec2Model ----------------------------
(***************************************************************************)
(* LogistiX: the pre-clusterer (src/src/pre_clusterer.py) and the two MIP  *)
(* builders (src/src/model.py), as state machines.                         *)
(*                                                                         *)
(* Locations are points of the equator, StepMilli thousandths of a         *)
(* kilometre apart, so that the great-circle distance of two locations is  *)
(* StepMilli * |a - b| / 1000 km.  Quantities the solver treats as         *)
(* continuous take integer values here.                                    *)
(***************************************************************************)
EXTENDS Integers, Sequences, FiniteSets, TLC

\* ------------------------------------------------------------- bounds
MaxDC     == 3      \* candidate DCs handed to the pre-clusterer
MaxCust   == 2      \* customers handed to the pre-clusterer
MaxPos    == 3      \* locations are 0..MaxPos
StepMilli == 1500   \* thousandths of a km between neighbouring locations
NProd     == 2      \* products
MaxDem    == 1      \* demand[k,p] is in 0..MaxDem
KeyBase   == 100    \* the DC identifiers of the pre-clusterer are KeyBase+1..
MaxId     == 2      \* the MIP has at most MaxId plants, DCs and customers
MaxCap    == 1      \* plnt_ub[i,p] is in 0..MaxCap, dc_ub[j] in 1..MaxCap
MaxFlow   == 2      \* a continuous variable takes its value in 0..MaxFlow
StepKm    == 2000   \* km between neighbouring locations of a costed instance
FarPos    == 12     \* the locations of a costed instance are 0..FarPos

\* ---------------------------------------------- constants of the program
unit_tp_cost  == 1
unit_del_cost == 10
unit_dc_fc    == 1000
unit_dc_vc    == 1
MS_SlackPenalty == 999999
SS_SlackPenalty == 99999999
MaxWeight     == 10    \* a product weighs 1..MaxWeight
MinDemand     == 10    \* a generated demand is in MinDemand..MaxDemand
MaxDemand     == 100

VARIABLES
    pc,          \* position of the running function
    err,         \* the exception that ended it, "none" while there is none
    \* arguments
    weight, cust, dc, demand,
    key_dc, n_clusters,
    \* locals of preclustering
    d, dc_dem, labels, cluster_dc,
    \* further arguments of multiple_src and single_src
    variant, plnt, plnt_ub, dc_ub, dc_num,
    \* the Gurobi model: its variables, its constraints, the solver's answer
    mvars, constrs, lastp, sol,
    \* its objective and the status the solver ended with
    objective, status,
    \* solve: the variant asked for, the list it returns
    requested, dcs,
    \* update_graph: the rows of the flow table
    table_data

preVars == <<key_dc, n_clusters, d, dc_dem, labels, cluster_dc>>
argVars == <<variant, plnt, plnt_ub, dc_ub, dc_num>>
mipVars == <<mvars, constrs, lastp, sol, objective, status>>
drvVars == <<requested, dcs, table_data>>
vars == <<pc, err, weight, cust, dc, demand, preVars, argVars, mipVars, drvVars>>

Pos == 0..MaxPos
Prods == 1..NProd

\* ------------------------------------------------------------ helpers
Abs(x) == IF x < 0 THEN -x ELSE x

RECURSIVE SumOver(_, _)
\* sum(f[e] for e in S)
SumOver(S, f) ==
    IF S = {} THEN 0
    ELSE LET e == CHOOSE e \in S : TRUE IN f[e] + SumOver(S \ {e}, f)

\* geopy great_circle(a, b).kilometers, in thousandths of a kilometre
KmMilli(a, b) == StepMilli * Abs(a - b)

\* Conversion of `km + 0.5` to numpy's int: the fraction is cut off.
IntKm(a, b) == (KmMilli(a, b) + 500) \div 1000

\* the last extreme index instead of the first
ArgMin_last(s) == CHOOSE i \in 1..Len(s) :
    /\ \A j \in 1..Len(s) : s[i] <= s[j]
    /\ \A j \in (i + 1)..Len(s) : s[j] > s[i]
ArgMax_last(s) == CHOOSE i \in 1..Len(s) :
    /\ \A j \in 1..Len(s) : s[i] >= s[j]
    /\ \A j \in (i + 1)..Len(s) : s[j] < s[i]

\* np.argmin / np.argmax of a non-empty sequence: the first extreme index
ArgMin(s) == CHOOSE i \in 1..Len(s) :
    /\ \A j \in 1..Len(s) : s[i] <= s[j]
    /\ \A j \in 1..(i - 1) : s[j] > s[i]
ArgMax(s) == CHOOSE i \in 1..Len(s) :
    /\ \A j \in 1..Len(s) : s[i] >= s[j]
    /\ \A j \in 1..(i - 1) : s[j] < s[i]

\* ------------------------------------------------- preclustering
n_dc == Len(key_dc)

\* lines 38-43: the integer distance matrix of the DCs
DistMatrix ==
    [i \in 1..n_dc |-> [j \in 1..n_dc |-> IntKm(dc[key_dc[i]], dc[key_dc[j]])]]

\* lines 48-49: index of the DC closest to customer z
Closest(z) == ArgMin([a \in 1..n_dc |-> IntKm(cust[z], dc[key_dc[a]])])

\* line 50: sum(demand[z, p] for p in prods)
TotalDemand(z) == SumOver(Prods, [p \in Prods |-> demand[<<z, p>>]])

\* lines 46-50: the demand score of every DC after the loop over cust
DemandScores ==
    [a \in 1..n_dc |->
        SumOver({z \in DOMAIN cust : Closest(z) = a},
                [z \in DOMAIN cust |-> TotalDemand(z)])]

\* Average linkage on the precomputed matrix: the distance of two clusters
\* is SumDist(A, B) / (|A| * |B|); compared by cross-multiplication.
SumDist(A, B) ==
    SumOver(A \X B, [ab \in A \X B |-> d[ab[1]][ab[2]]])

Pairs(part) == {pr \in SUBSET part : Cardinality(pr) = 2}

First(pr) == CHOOSE A \in pr : TRUE
Second(pr) == CHOOSE B \in pr : B # First(pr)
Num(pr) == SumDist(First(pr), Second(pr))
Den(pr) == Cardinality(First(pr)) * Cardinality(Second(pr))

\* the pairs of clusters at the greatest average distance
ClosestPairs_farthest(part) ==
    {pr \in Pairs(part) :
        \A qr \in Pairs(part) : Num(pr) * Den(qr) >= Num(qr) * Den(pr)}

\* the pairs of clusters at the least average distance
ClosestPairs(part) ==
    {pr \in Pairs(part) :
        \A qr \in Pairs(part) : Num(pr) * Den(qr) <= Num(qr) * Den(pr)}

Merged(part, pr) == (part \ pr) \cup {UNION pr}

RECURSIVE Agglomerate(_, _)
\* The partitions into k clusters that agglomeration can end in.  Which of
\* several equally close pairs is merged first is the library's choice and
\* is left open.
Agglomerate(parts, k) ==
    IF \A part \in parts : Cardinality(part) <= k THEN parts
    ELSE Agglomerate(
            UNION {IF Cardinality(part) <= k THEN {part}
                   ELSE {Merged(part, pr) : pr \in ClosestPairs(part)}
                   : part \in parts}, k)

Singletons == {{i} : i \in 1..n_dc}

\* model.labels_: a numbering 0..k-1 of the clusters of a partition; which
\* cluster gets which number is the library's choice and is left open.
Labelings(part, k) ==
    {lab \in [1..n_dc -> 0..(k - 1)] :
        \A a, b \in 1..n_dc :
            (lab[a] = lab[b]) <=> (\E A \in part : a \in A /\ b \in A)}

\* np.where(model.labels_ == i)[0]: the indices of cluster i, ascending
RECURSIVE Ascending(_)
Ascending(S) ==
    IF S = {} THEN <<>>
    ELSE LET m == CHOOSE m \in S : \A x \in S : m <= x
         IN <<m>> \o Ascending(S \ {m})

Indices(i) == Ascending({a \in 1..n_dc : labels[a] = i})

\* lines 59-62: one pass of the loop, the index appended for cluster i
Representative(i) ==
    LET indices == Indices(i)
        demands == [t \in 1..Len(indices) |-> dc_dem[indices[t]]]
    IN indices[ArgMax(demands)]

\* line 64
Selected == [c \in 1..n_clusters |-> key_dc[Representative(c - 1)]]

(* ---- the steps of preclustering ---- *)

\* lines 35-43
BuildDistances ==
    /\ pc = "start"
    /\ d' = DistMatrix
    /\ pc' = "distances"
    /\ UNCHANGED <<err, weight, cust, dc, demand, key_dc, n_clusters,
                   dc_dem, labels, cluster_dc, argVars, mipVars, drvVars>>

\* lines 45-50
AssignDemand ==
    /\ pc = "distances"
    /\ dc_dem' = DemandScores
    /\ pc' = "scored"
    /\ UNCHANGED <<err, weight, cust, dc, demand, key_dc, n_clusters,
                   d, labels, cluster_dc, argVars, mipVars, drvVars>>

\* What AgglomerativeClustering.fit rejects with ValueError: a cluster count
\* that is not positive, a matrix of fewer than two samples (fit validates
\* its input with ensure_min_samples=2), more clusters than samples.
FitRejects == n_clusters <= 0 \/ n_dc < 2 \/ n_clusters > n_dc

\* lines 52-54, the library raising ValueError
FitFails ==
    /\ pc = "scored"
    /\ FitRejects
    /\ err' = "ValueError"
    /\ pc' = "failed"
    /\ UNCHANGED <<weight, cust, dc, demand, preVars, argVars, mipVars, drvVars>>

\* lines 52-54
Fit ==
    /\ pc = "scored"
    /\ ~FitRejects
    /\ \E part \in Agglomerate({Singletons}, n_clusters) :
         \E lab \in Labelings(part, n_clusters) : labels' = lab
    /\ pc' = "fitted"
    /\ UNCHANGED <<err, weight, cust, dc, demand, key_dc, n_clusters,
                   d, dc_dem, cluster_dc, argVars, mipVars, drvVars>>

\* lines 56-64
ChooseRepresentatives ==
    /\ pc = "fitted"
    /\ cluster_dc' = Selected
    /\ pc' = "done"
    /\ UNCHANGED <<err, weight, cust, dc, demand, key_dc, n_clusters,
                   d, dc_dem, labels, argVars, mipVars, drvVars>>

\* preclustering(cust, dc, prods, demand, n_clusters) is called
InitPre ==
    /\ pc = "start"
    /\ err = "none"
    /\ weight = [p \in Prods |-> 1]
    /\ \E n \in 1..MaxDC :
         /\ key_dc = [i \in 1..n |-> KeyBase + i]
         /\ dc \in [{KeyBase + i : i \in 1..n} -> Pos]
         /\ n_clusters \in 0..(n + 1)
    /\ \E m \in 0..MaxCust :
         /\ cust \in [1..m -> Pos]
         /\ demand \in [(1..m) \X Prods -> 0..MaxDem]
    /\ d = <<>>
    /\ dc_dem = <<>>
    /\ labels = <<>>
    /\ cluster_dc = <<>>
    /\ variant = "none"
    /\ plnt = <<>>
    /\ plnt_ub = <<>>
    /\ dc_ub = <<>>
    /\ dc_num = 0
    /\ mvars = {}
    /\ constrs = {}
    /\ lastp = 0
    /\ sol = <<>>
    /\ objective = <<>>
    /\ status = "none"
    /\ requested = "none"
    /\ dcs = <<>>
    /\ table_data = {}

NextPre ==
    \/ BuildDistances
    \/ AssignDemand
    \/ FitFails
    \/ Fit
    \/ ChooseRepresentatives

SpecPre == InitPre /\ [][NextPre]_vars

\* ------------------------------------------------- the MIP builders
\* A Gurobi variable is named by its kind and its key.
XV(a, b, p) == <<"x", a, b, p>>
YV(j) == <<"y", j, 0, 0>>
ZV(j, k) == <<"z", j, k, 0>>
SlackKP(k, p) == <<"slack", k, p, 0>>
SlackK(k) == <<"slack", k, 0, 0>>

Kind(v) == v[1]

\* quicksum(...): a linear expression maps each variable in it to its
\* coefficient.
Ones(S) == [v \in S |-> 1]

\* model.addConstr(lhs + lhsc  sense  rhs + rhsc)
Constr(name, lhs, lhsc, sense, rhs, rhsc) ==
    [name |-> name, lhs |-> lhs, lhsc |-> lhsc, sense |-> sense,
     rhs |-> rhs, rhsc |-> rhsc]

NoTerms == Ones({})

\* model.py 65 / 191
prod == DOMAIN weight

\* model.py 66 / 192: plnt_ub.get((i, p), 0) > 0
plnt_to_dc ==
    {<<i, j, p>> \in (DOMAIN plnt) \X (DOMAIN dc) \X prod :
        (IF <<i, p>> \in DOMAIN plnt_ub THEN plnt_ub[<<i, p>>] ELSE 0) > 0}

\* model.py 67 / 193
dc_to_cust ==
    {<<j, k, p>> \in (DOMAIN dc) \X (DOMAIN cust) \X prod : demand[<<k, p>>] > 0}

(* ---- mk_costs ---- *)

\* great_circle(a, b).kilometers of two locations of a costed instance
Km(a, b) == StepKm * Abs(a - b)

\* model.py 23-26
tp_cost ==
    [ij \in (DOMAIN plnt) \X (DOMAIN dc) |-> unit_tp_cost * Km(plnt[ij[1]], dc[ij[2]])]
del_cost ==
    [jk \in (DOMAIN dc) \X (DOMAIN cust) |-> unit_del_cost * Km(dc[jk[1]], cust[jk[2]])]
dc_fc == [j \in DOMAIN dc |-> unit_dc_fc]
dc_vc == [j \in DOMAIN dc |-> unit_dc_vc]

\* the sum of two linear expressions
Coef(terms, v) == IF v \in DOMAIN terms THEN terms[v] ELSE 0
Plus(a, b) == [v \in (DOMAIN a) \cup (DOMAIN b) |-> Coef(a, v) + Coef(b, v)]

\* the terms of both objectives over the plant arcs and over y
TpTerms == [v \in {XV(t[1], t[2], t[3]) : t \in plnt_to_dc} |->
               weight[v[4]] * tp_cost[<<v[2], v[3]>>]]
FcTerms == [v \in {YV(j) : j \in DOMAIN dc} |-> dc_fc[v[2]]]
VcTerms == [v \in {XV(t[1], t[2], t[3]) : t \in plnt_to_dc} |-> dc_vc[v[3]]]

(* ---- multiple_src ---- *)

\* x created for the plant arcs only
MS_Vars_plantonly ==
    {XV(t[1], t[2], t[3]) : t \in plnt_to_dc}
    \cup {SlackKP(kp[1], kp[2]) : kp \in {q \in DOMAIN demand : demand[q] > 0}}
    \cup {YV(j) : j \in DOMAIN dc}

\* model.py 72-82: one x per key of plnt_to_dc | dc_to_cust, one slack per
\* positive demand, one y per DC
MS_Vars ==
    {XV(t[1], t[2], t[3]) : t \in plnt_to_dc \cup dc_to_cust}
    \cup {SlackKP(kp[1], kp[2]) : kp \in {q \in DOMAIN demand : demand[q] > 0}}
    \cup {YV(j) : j \in DOMAIN dc}

\* model.py 88-97
MS_Cust_Demand_Cons_noslack ==
    {Constr(<<"Cust_Demand_Cons", kp[1], kp[2]>>,
            Ones({XV(j, kp[1], kp[2]) : j \in {j \in DOMAIN dc : <<j, kp[1], kp[2]>> \in dc_to_cust}}), 0,
            "==", NoTerms, demand[kp])
     : kp \in {q \in (DOMAIN cust) \X prod : demand[q] > 0}}
MS_Cust_Demand_Cons ==
    {Constr(<<"Cust_Demand_Cons", kp[1], kp[2]>>,
            Ones({XV(j, kp[1], kp[2]) : j \in {j \in DOMAIN dc : <<j, kp[1], kp[2]>> \in dc_to_cust}}
                 \cup {SlackKP(kp[1], kp[2])}), 0,
            "==", NoTerms, demand[kp])
     : kp \in {q \in (DOMAIN cust) \X prod : demand[q] > 0}}

\* model.py 99-107
MS_DC_Flow_Cons ==
    {Constr(<<"DC_Flow_Cons", jp[1], jp[2]>>,
            Ones({XV(i, jp[1], jp[2]) : i \in {i \in DOMAIN plnt : <<i, jp[1], jp[2]>> \in plnt_to_dc}}), 0,
            "==",
            Ones({XV(jp[1], k, jp[2]) : k \in {k \in DOMAIN cust : <<jp[1], k, jp[2]>> \in dc_to_cust}}),
            0)
     : jp \in (DOMAIN dc) \X prod}

\* model.py 110-117
MS_DC_Strong_Cons_weak ==
    {Constr(<<"DC_Strong_Cons", t[1], t[2], t[3]>>,
            Ones({XV(t[1], t[2], t[3])}), 0,
            "<=", NoTerms, demand[<<t[2], t[3]>>])
     : t \in dc_to_cust}
MS_DC_Strong_Cons ==
    {Constr(<<"DC_Strong_Cons", t[1], t[2], t[3]>>,
            Ones({XV(t[1], t[2], t[3])}), 0,
            "<=",
            [v \in {YV(t[1])} |-> demand[<<t[2], t[3]>>]], 0)
     : t \in dc_to_cust}

\* model.py 119-126: the sum runs over the plants and over the products
MS_DC_UB_Cons_noy ==
    {Constr(<<"DC_UB_Cons", j>>,
            NoTerms, dc_ub[j],
            ">=",
            Ones({XV(t[1], t[2], t[3]) : t \in {t \in plnt_to_dc : t[2] = j}}),
            0)
     : j \in DOMAIN dc}
MS_DC_UB_Cons_oneprod ==
    {Constr(<<"DC_UB_Cons", j>>,
            [v \in {YV(j)} |-> dc_ub[j]], 0,
            ">=",
            Ones({XV(t[1], t[2], t[3]) : t \in {t \in plnt_to_dc : t[2] = j /\ t[3] = 1}}),
            0)
     : j \in DOMAIN dc}
MS_DC_UB_Cons ==
    {Constr(<<"DC_UB_Cons", j>>,
            [v \in {YV(j)} |-> dc_ub[j]], 0,
            ">=",
            Ones({XV(t[1], t[2], t[3]) : t \in {t \in plnt_to_dc : t[2] = j}}),
            0)
     : j \in DOMAIN dc}

\* model.py 128-136
MS_Plnt_UB_Cons_onedc ==
    {Constr(<<"Plnt_UB_Cons", ip[1], ip[2]>>,
            NoTerms, plnt_ub[ip], ">=",
            Ones({XV(t[1], t[2], t[3]) : t \in {t \in plnt_to_dc : t[1] = ip[1] /\ t[3] = ip[2] /\ t[2] = MaxId}}),
            0)
     : ip \in (DOMAIN plnt) \X prod}
MS_Plnt_UB_Cons ==
    {Constr(<<"Plnt_UB_Cons", ip[1], ip[2]>>,
            NoTerms, plnt_ub[ip], ">=",
            Ones({XV(t[1], t[2], t[3]) : t \in {t \in plnt_to_dc : t[1] = ip[1] /\ t[3] = ip[2]}}),
            0)
     : ip \in (DOMAIN plnt) \X prod}

\* the limit is the number of candidates instead of dc_num
DC_Num_Cons_alldc ==
    {Constr(<<"DC_Num_Cons">>, Ones({YV(j) : j \in DOMAIN dc}), 0, "<=", NoTerms,
            Cardinality(DOMAIN dc))}

\* model.py 138-144 / 265-271
DC_Num_Cons ==
    {Constr(<<"DC_Num_Cons">>, Ones({YV(j) : j \in DOMAIN dc}), 0, "<=", NoTerms, dc_num)}

\* the model with the factor y[j] left out of both linking constraints
MS_Constrs_nolink ==
    MS_Cust_Demand_Cons \cup MS_DC_Flow_Cons \cup MS_DC_Strong_Cons_weak
    \cup MS_DC_UB_Cons_noy \cup MS_Plnt_UB_Cons \cup DC_Num_Cons

\* model.py 86-144: every constraint of the multiple-source model
MS_Constrs ==
    MS_Cust_Demand_Cons \cup MS_DC_Flow_Cons \cup MS_DC_Strong_Cons
    \cup MS_DC_UB_Cons \cup MS_Plnt_UB_Cons \cup DC_Num_Cons

\* model.py 151
MS_DelTerms == [v \in {XV(t[1], t[2], t[3]) : t \in dc_to_cust} |->
                   weight[v[4]] * del_cost[<<v[2], v[3]>>]]
\* model.py 154
MS_SlackTerms ==
    [v \in {SlackKP(kp[1], kp[2]) : kp \in {q \in (DOMAIN cust) \X prod : demand[q] > 0}} |->
        MS_SlackPenalty]

\* the objective without the fixed costs
MS_Objective_nofc ==
    Plus(Plus(Plus(TpTerms, MS_DelTerms), VcTerms), MS_SlackTerms)

\* the objective without the variable costs
MS_Objective_novc ==
    Plus(Plus(Plus(TpTerms, MS_DelTerms), FcTerms), MS_SlackTerms)

\* the objective without the transport costs
MS_Objective_notp ==
    Plus(Plus(Plus(MS_DelTerms, FcTerms), VcTerms), MS_SlackTerms)

\* model.py 148-155
MS_Objective ==
    Plus(Plus(Plus(Plus(TpTerms, MS_DelTerms), FcTerms), VcTerms), MS_SlackTerms)


(* ---- single_src ---- *)

\* model.py 196-209: x only for the plant arcs, z for every (DC, customer),
\* one slack per customer, one y per DC
SS_Vars ==
    {XV(t[1], t[2], t[3]) : t \in plnt_to_dc}
    \cup {ZV(jk[1], jk[2]) : jk \in (DOMAIN dc) \X (DOMAIN cust)}
    \cup {SlackK(k) : k \in DOMAIN cust}
    \cup {YV(j) : j \in DOMAIN dc}

\* the assignment constraint without its slack
SS_Cust_Demand_Cons_noslack ==
    {Constr(<<"Cust_Demand_Cons", k>>,
            Ones({ZV(j, k) : j \in DOMAIN dc}), 0,
            "==", NoTerms, 1)
     : k \in DOMAIN cust}

\* the assignment constraint as an inequality
SS_Cust_Demand_Cons_atleast ==
    {Constr(<<"Cust_Demand_Cons", k>>,
            Ones({ZV(j, k) : j \in DOMAIN dc} \cup {SlackK(k)}), 0,
            ">=", NoTerms, 1)
     : k \in DOMAIN cust}

\* model.py 215-221
SS_Cust_Demand_Cons ==
    {Constr(<<"Cust_Demand_Cons", k>>,
            Ones({ZV(j, k) : j \in DOMAIN dc} \cup {SlackK(k)}), 0,
            "==", NoTerms, 1)
     : k \in DOMAIN cust}

\* model.py 222-230
SS_DC_Flow_Cons_atmost ==
    {Constr(<<"DC_Flow_Cons", jp[1], jp[2]>>,
            Ones({XV(i, jp[1], jp[2]) : i \in {i \in DOMAIN plnt : <<i, jp[1], jp[2]>> \in plnt_to_dc}}), 0,
            "<=",
            [v \in {ZV(jp[1], k) : k \in DOMAIN cust} |-> demand[<<v[3], jp[2]>>]],
            0)
     : jp \in (DOMAIN dc) \X prod}
SS_DC_Flow_Cons ==
    {Constr(<<"DC_Flow_Cons", jp[1], jp[2]>>,
            Ones({XV(i, jp[1], jp[2]) : i \in {i \in DOMAIN plnt : <<i, jp[1], jp[2]>> \in plnt_to_dc}}), 0,
            "==",
            [v \in {ZV(jp[1], k) : k \in DOMAIN cust} |-> demand[<<v[3], jp[2]>>]],
            0)
     : jp \in (DOMAIN dc) \X prod}

\* model.py 234-242
SS_DC_Strong_Cons ==
    {Constr(<<"DC_Strong_Cons", jk[1], jk[2]>>,
            Ones({ZV(jk[1], jk[2])}), 0, "<=", Ones({YV(jk[1])}), 0)
     : jk \in (DOMAIN dc) \X (DOMAIN cust)}

\* model.py 245-252: the generator has no `for p in prod`; its p is the
\* function's variable p, left by the loop of lines 223-230 at the product
\* that loop visited last (lp).
SS_DC_UB_Cons(lp) ==
    {Constr(<<"DC_UB_Cons", j>>,
            [v \in {YV(j)} |-> dc_ub[j]], 0,
            ">=",
            Ones({XV(i, j, lp) : i \in {i \in DOMAIN plnt : <<i, j, lp>> \in plnt_to_dc}}),
            0)
     : j \in DOMAIN dc}

\* model.py 255-263
SS_Plnt_UB_Cons ==
    {Constr(<<"Plnt_UB_Cons", ip[1], ip[2]>>,
            NoTerms, plnt_ub[ip], ">=",
            Ones({XV(t[1], t[2], t[3]) : t \in {t \in plnt_to_dc : t[1] = ip[1] /\ t[3] = ip[2]}}),
            0)
     : ip \in (DOMAIN plnt) \X prod}

\* the single-source model without its flow conservation
SS_Constrs_noflow(lp) ==
    SS_Cust_Demand_Cons \cup SS_DC_Strong_Cons
    \cup SS_DC_UB_Cons(lp) \cup SS_Plnt_UB_Cons \cup DC_Num_Cons

\* model.py 213-271: every constraint of the single-source model
SS_Constrs(lp) ==
    SS_Cust_Demand_Cons \cup SS_DC_Flow_Cons \cup SS_DC_Strong_Cons
    \cup SS_DC_UB_Cons(lp) \cup SS_Plnt_UB_Cons \cup DC_Num_Cons

\* model.py 275
total_demand ==
    [k \in DOMAIN cust |-> SumOver(prod, [p \in prod |-> demand[<<k, p>>]])]

\* model.py 280: the generator runs over j and k only, its p is the variable
\* the loop of lines 256-257 left behind
SS_DelTerms(lp) ==
    [v \in {ZV(jk[1], jk[2]) : jk \in (DOMAIN dc) \X (DOMAIN cust)} |->
        weight[lp] * del_cost[<<v[2], v[3]>>] * total_demand[v[3]]]
\* model.py 283
SS_SlackTerms == [v \in {SlackK(k) : k \in DOMAIN cust} |-> SS_SlackPenalty]

\* model.py 277-284
SS_Objective(lp) ==
    Plus(Plus(Plus(Plus(TpTerms, SS_DelTerms(lp)), FcTerms), VcTerms), SS_SlackTerms)

(* ---- the solver ---- *)

\* the value of a linear expression under an assignment of its variables
Eval(terms, s) ==
    SumOver(DOMAIN terms, [v \in DOMAIN terms |-> terms[v] * s[v]])

Holds(c, s) ==
    LET l == Eval(c.lhs, s) + c.lhsc
        r == Eval(c.rhs, s) + c.rhsc
    IN CASE c.sense = "==" -> l = r
         [] c.sense = "<=" -> l <= r
         [] c.sense = ">=" -> l >= r

VarsOf(c) == (DOMAIN c.lhs) \cup (DOMAIN c.rhs)

\* the part of an expression over the variables already assigned
Partial(terms, asg) == [v \in (DOMAIN terms) \cap asg |-> terms[v]]

\* A constraint can still be met when the variables of asg are assigned as
\* in s: variables and coefficients are non-negative, so the side that must
\* stay small is not yet above the other side, once that one is complete.
Open(c, s, asg) ==
    LET l == Eval(Partial(c.lhs, asg), s) + c.lhsc
        r == Eval(Partial(c.rhs, asg), s) + c.rhsc
        lfull == (DOMAIN c.lhs) \subseteq asg
        rfull == (DOMAIN c.rhs) \subseteq asg
    IN /\ (lfull /\ rfull) => Holds(c, s)
       /\ (c.sense \in {"==", "<="} /\ rfull) => l <= r
       /\ (c.sense \in {"==", ">="} /\ lfull) => r <= l

\* vtype 'B' is 0 or 1; vtype 'C' is non-negative (lb = 0)
Values(v) == IF Kind(v) \in {"y", "z"} THEN 0..1 ELSE 0..MaxFlow

Rank(v) == CASE Kind(v) = "y" -> 1 [] Kind(v) = "z" -> 2
             [] Kind(v) = "x" -> 3 [] OTHER -> 4

RECURSIVE Extend(_, _, _, _)
\* the assignments of asg \cup rest that extend one of partials and meet cs
Extend(partials, asg, rest, cs) ==
    IF rest = {} \/ partials = {} THEN partials
    ELSE LET v == CHOOSE v \in rest : \A w \in rest : Rank(v) <= Rank(w)
             now == asg \cup {v}
             touched == {c \in cs : v \in VarsOf(c)}
         IN Extend({sv[1] @@ (v :> sv[2]) :
                        sv \in {sv \in partials \X Values(v) :
                                  \A c \in touched :
                                      Open(c, sv[1] @@ (v :> sv[2]), now)}},
                   now, rest \ {v}, cs)

\* the feasible solutions of the model (vs, cs)
Feasible(vs, cs) ==
    IF \A c \in cs : VarsOf(c) = {} => Holds(c, <<>>)
    THEN Extend({<<>>}, {}, vs, cs)
    ELSE {}

(* ---- the steps ---- *)

\* model.py 131 / 258: plnt_ub[i, p] is read for every plant and product; a
\* key that is not in the dict raises KeyError
MissingUB == \E ip \in (DOMAIN plnt) \X prod : ip \notin DOMAIN plnt_ub

\* the builder is left by the exception, no model is returned
BuilderRaises ==
    /\ err' = "KeyError"
    /\ pc' = "failed"
    /\ UNCHANGED <<weight, cust, dc, demand, preVars, argVars, mipVars, drvVars>>

\* multiple_src(...) builds its model
multiple_src ==
    /\ pc = "call"
    /\ variant = "multiple source"
    /\ IF MissingUB
       THEN BuilderRaises
       ELSE /\ mvars' = MS_Vars
            /\ constrs' = MS_Constrs
            /\ objective' = MS_Objective
            /\ lastp' = lastp
            /\ pc' = "built"
            /\ UNCHANGED <<err, weight, cust, dc, demand, preVars, argVars, sol,
                           status, drvVars>>

\* single_src(...) builds its model; the iteration order of the set prod
\* decides which product the loop of lines 223-230 visits last
single_src ==
    /\ pc = "call"
    /\ variant = "single source"
    /\ IF MissingUB
       THEN BuilderRaises
       ELSE /\ \E lp \in prod :
                 /\ lastp' = lp
                 /\ constrs' = SS_Constrs(lp)
                 /\ objective' = SS_Objective(lp)
            /\ mvars' = SS_Vars
            /\ pc' = "built"
            /\ UNCHANGED <<err, weight, cust, dc, demand, preVars, argVars, sol,
                           status, drvVars>>

\* the least of a non-empty set of numbers
MinOf(V) == CHOOSE m \in V : \A n \in V : m <= n

\* model.optimize() under a time limit: the solver hands back a feasible
\* solution, a least-cost one when it ends with status OPTIMAL
Optimize ==
    /\ pc = "built"
    /\ \E F \in {Feasible(mvars, constrs)} :
         /\ F # {}
         /\ \E V \in {{Eval(objective, t) : t \in F}} :
              \E best \in {MinOf(V)} :
                \E s \in F :
                  /\ sol' = s
                  /\ status' = IF Eval(objective, s) = best
                               THEN "OPTIMAL" ELSE "TIME_LIMIT"
    /\ pc' = "solved"
    /\ UNCHANGED <<err, weight, cust, dc, demand, preVars, argVars,
                   mvars, constrs, lastp, objective, drvVars>>

\* The identifiers are keys of the location tables; a plant, a DC and a
\* customer may have the same key.  Here the highest plant key is also the
\* lowest DC key, and the highest DC key the lowest customer key.
PlantIds == 1..MaxId
DcIds == MaxId..(2 * MaxId - 1)
CustIds == (2 * MaxId - 1)..(3 * MaxId - 2)
NonEmpty(S) == (SUBSET S) \ {{}}

InitMIP ==
    /\ pc = "call"
    /\ err = "none"
    /\ variant \in {"multiple source", "single source"}
    /\ weight = [p \in Prods |-> 1]
    /\ \E P \in NonEmpty(PlantIds), J \in NonEmpty(DcIds), K \in NonEmpty(CustIds) :
         /\ plnt = [i \in P |-> 0]
         /\ dc = [j \in J |-> 0]
         /\ cust = [k \in K |-> 0]
         /\ plnt_ub \in [P \X Prods -> 0..MaxCap]
         /\ dc_ub \in [J -> 1..MaxCap]
         /\ demand \in [K \X Prods -> 0..MaxDem]
    /\ dc_num \in 0..MaxId
    /\ key_dc = <<>>
    /\ n_clusters = 0
    /\ d = <<>>
    /\ dc_dem = <<>>
    /\ labels = <<>>
    /\ cluster_dc = <<>>
    /\ mvars = {}
    /\ constrs = {}
    /\ lastp = 0
    /\ sol = <<>>
    /\ objective = <<>>
    /\ status = "none"
    /\ requested = "none"
    /\ dcs = <<>>
    /\ table_data = {}

NextMIP ==
    \/ multiple_src
    \/ single_src
    \/ Optimize

SpecMIP == InitMIP /\ [][NextMIP]_vars

\* Instances with unequal weights and unequal distances: one plant, at the
\* near end of the line, one customer, the DCs and the customer at the near
\* end or half way along the line.
EndPos == {0, FarPos \div 2}
One(S) == {{e} : e \in S}

InitCosted ==
    /\ pc = "call"
    /\ err = "none"
    /\ variant \in {"multiple source", "single source"}
    /\ weight \in [Prods -> {1, MaxWeight}]
    /\ \E P \in One(PlantIds), J \in NonEmpty(DcIds), K \in One(CustIds) :
         /\ plnt = [i \in P |-> 0]
         /\ dc \in [J -> EndPos]
         /\ cust \in [K -> EndPos]
         /\ plnt_ub \in [P \X Prods -> 0..MaxCap]
         /\ dc_ub \in [J -> 1..MaxCap]
         /\ demand \in [K \X Prods -> 0..MaxDem]
    /\ dc_num \in 0..MaxId
    /\ key_dc = <<>>
    /\ n_clusters = 0
    /\ d = <<>>
    /\ dc_dem = <<>>
    /\ labels = <<>>
    /\ cluster_dc = <<>>
    /\ mvars = {}
    /\ constrs = {}
    /\ lastp = 0
    /\ sol = <<>>
    /\ objective = <<>>
    /\ status = "none"
    /\ requested = "none"
    /\ dcs = <<>>
    /\ table_data = {}

SpecCosted == InitCosted /\ [][NextMIP]_vars

\* Calls the builders do not rule out: no customer, a negative demand, a
\* dc_num that is not positive, a plnt_ub without an entry for some plant
\* and product.
PartialMaps(D, V) == UNION {[E -> V] : E \in SUBSET D}

InitUnchecked ==
    /\ pc = "call"
    /\ err = "none"
    /\ variant \in {"multiple source", "single source"}
    /\ weight = [p \in Prods |-> 1]
    /\ \E P \in One(PlantIds), J \in One(DcIds), K \in SUBSET CustIds :
         /\ plnt = [i \in P |-> 0]
         /\ dc = [j \in J |-> 0]
         /\ cust = [k \in K |-> 0]
         /\ plnt_ub \in PartialMaps(P \X Prods, 0..MaxCap)
         /\ dc_ub \in [J -> 1..MaxCap]
         /\ demand \in [K \X Prods -> (-1)..MaxDem]
    /\ dc_num \in (-1)..MaxId
    /\ key_dc = <<>>
    /\ n_clusters = 0
    /\ d = <<>>
    /\ dc_dem = <<>>
    /\ labels = <<>>
    /\ cluster_dc = <<>>
    /\ mvars = {}
    /\ constrs = {}
    /\ lastp = 0
    /\ sol = <<>>
    /\ objective = <<>>
    /\ status = "none"
    /\ requested = "none"
    /\ dcs = <<>>
    /\ table_data = {}

SpecUnchecked == InitUnchecked /\ [][NextMIP]_vars

\* The cardinality-binding scenario: one plant anywhere on the line, two
\* candidate DCs, the first at the near end, one customer closer to the
\* second DC, one DC to open, plants and DCs at full capacity.
InitBinding ==
    /\ pc = "call"
    /\ err = "none"
    /\ variant = "multiple source"
    /\ \E w \in {1, MaxWeight} : weight = [p \in Prods |-> w]
    /\ \E P \in One(PlantIds), K \in One(CustIds) :
         /\ plnt \in [P -> 0..FarPos]
         /\ \E j1, j2 \in DcIds, pos \in 1..FarPos :
              /\ j1 < j2
              /\ dc = [j \in {j1, j2} |-> IF j = j1 THEN 0 ELSE pos]
              /\ cust \in [K -> 0..FarPos]
              /\ \A k \in K : Abs(cust[k] - dc[j2]) < Abs(cust[k] - dc[j1])
         /\ plnt_ub = [ip \in P \X Prods |-> MaxCap]
         /\ dc_ub = [j \in DOMAIN dc |-> MaxCap]
         /\ demand \in [K \X Prods -> 0..MaxDem] \ {[kp \in K \X Prods |-> 0]}
    /\ dc_num = 1
    /\ key_dc = <<>>
    /\ n_clusters = 0
    /\ d = <<>>
    /\ dc_dem = <<>>
    /\ labels = <<>>
    /\ cluster_dc = <<>>
    /\ mvars = {}
    /\ constrs = {}
    /\ lastp = 0
    /\ sol = <<>>
    /\ objective = <<>>
    /\ status = "none"
    /\ requested = "none"
    /\ dcs = <<>>
    /\ table_data = {}

NextBinding ==
    \/ multiple_src
    \/ Optimize

SpecBinding == InitBinding /\ [][NextBinding]_vars

(* ---- mk_instance ---- *)

\* instance.py 62-63: the products and a weight for each; of the weights
\* 1..MaxWeight the least and the greatest are drawn
generate_products(num_products) == [1..num_products -> {1, MaxWeight}]

\* a demand also for a customer that is not in cust
generate_demand_stray(custs, prods) ==
    [(custs \cup {0}) \X prods -> {MinDemand, MaxDemand}]

\* instance.py 124: a demand for every customer and product; of the values
\* MinDemand..MaxDemand the least and the greatest are drawn
generate_demand(custs, prods) == [custs \X prods -> {MinDemand, MaxDemand}]

\* instance.py 144: 1000 + 25 * random.randint(1, 9) * cust_len
generate_distribution_centers(cust_len, J) ==
    [J -> {1000 + 25 * r * cust_len : r \in {1, 9}}]

\* instance.py 161-162: prod_demand[p] / nplant + 1000
generate_plants(nplant, prod_demand, P) ==
    [ip \in P \X (DOMAIN prod_demand) |-> (prod_demand[ip[2]] \div nplant) + 1000]

\* instance.py 210-250: the rows sampled from the location tables are the
\* keys of cust, plant and dc
mk_instance ==
    /\ pc = "mk_instance"
    /\ \E nprod \in 0..NProd, P \in SUBSET PlantIds, J \in SUBSET DcIds,
          K \in SUBSET CustIds :
         /\ weight' \in generate_products(nprod)
         /\ cust' \in [K -> EndPos]
         /\ demand' \in generate_demand(K, 1..nprod)
         /\ dc' = [j \in J |-> 0]
         /\ dc_ub' \in generate_distribution_centers(Cardinality(K), J)
         /\ plnt' = [i \in P |-> 0]
         /\ plnt_ub' = generate_plants(Cardinality(P),
                          [p \in 1..nprod |->
                              SumOver(K, [c \in K |-> demand'[<<c, p>>]])], P)
    /\ pc' = "instance"
    /\ UNCHANGED <<err, preVars, variant, dc_num, mipVars, drvVars>>

InitInstance ==
    /\ pc = "mk_instance"
    /\ err = "none"
    /\ variant = "none"
    /\ weight = <<>>
    /\ plnt = <<>>
    /\ dc = <<>>
    /\ cust = <<>>
    /\ plnt_ub = <<>>
    /\ dc_ub = <<>>
    /\ demand = <<>>
    /\ dc_num = 0
    /\ key_dc = <<>>
    /\ n_clusters = 0
    /\ d = <<>>
    /\ dc_dem = <<>>
    /\ labels = <<>>
    /\ cluster_dc = <<>>
    /\ mvars = {}
    /\ constrs = {}
    /\ lastp = 0
    /\ sol = <<>>
    /\ objective = <<>>
    /\ status = "none"
    /\ requested = "none"
    /\ dcs = <<>>
    /\ table_data = {}

NextInstance == mk_instance

SpecInstance == InitInstance /\ [][NextInstance]_vars

(* ---- solve ---- *)

\* app.py 80-84: the first key of the dict models
FirstModel == "multiple source"

\* the elements of a list
Elems(s) == {s[i] : i \in 1..Len(s)}

\* app.py 76-91: solve(data, cluster_dc, dc_num, model) calls the builder
\* models[k] with cluster_dc in the place of dc
solve ==
    /\ pc = "solve"
    /\ variant' = FirstModel
    /\ dc' = [j \in Elems(cluster_dc) |-> dc[j]]
    /\ pc' = "call"
    /\ UNCHANGED <<err, weight, cust, demand, preVars, plnt, plnt_ub, dc_ub,
                   dc_num, mipVars, drvVars>>

\* app.py 98: y[i].X > .5
IsOpened(i) == 2 * sol[YV(i)] > 1

\* app.py 96-100
solve_return ==
    /\ pc = "solved"
    /\ requested # "none"
    /\ dcs' = SelectSeq(cluster_dc, IsOpened)
    /\ pc' = "returned"
    /\ UNCHANGED <<err, weight, cust, dc, demand, preVars, argVars, mipVars,
                   requested, table_data>>

\* app.py 562-564: one row for every key of x
update_graph ==
    /\ pc = "returned"
    /\ table_data' = {[Customer |-> v[3], DistributionCenter |-> v[2], Product |-> v[4]]
                       : v \in {w \in mvars : Kind(w) = "x"}}
    /\ pc' = "table"
    /\ UNCHANGED <<err, weight, cust, dc, demand, preVars, argVars, mipVars,
                   requested, dcs>>

\* the lists of distinct elements of S, the empty one left out
RECURSIVE Lists(_)
Lists(S) ==
    {<<>>} \cup UNION {{<<e>> \o l : l \in Lists(S \ {e})} : e \in S}

InitSolve ==
    /\ pc = "solve"
    /\ err = "none"
    /\ requested \in {"multiple source", "single source"}
    /\ variant = "none"
    /\ weight = [p \in Prods |-> 1]
    /\ \E P \in One(PlantIds), J \in NonEmpty(DcIds), K \in NonEmpty(CustIds) :
         /\ plnt = [i \in P |-> 0]
         /\ dc = [j \in J |-> 0]
         /\ cust = [k \in K |-> 0]
         /\ plnt_ub \in [P \X Prods -> 0..MaxCap]
         /\ dc_ub \in [J -> 1..MaxCap]
         /\ demand \in [K \X Prods -> 0..MaxDem]
         /\ cluster_dc \in Lists(J) \ {<<>>}
    /\ dc_num \in 0..MaxId
    /\ key_dc = <<>>
    /\ n_clusters = 0
    /\ d = <<>>
    /\ dc_dem = <<>>
    /\ labels = <<>>
    /\ mvars = {}
    /\ constrs = {}
    /\ lastp = 0
    /\ sol = <<>>
    /\ objective = <<>>
    /\ status = "none"
    /\ dcs = <<>>
    /\ table_data = {}

NextSolve ==
    \/ solve
    \/ multiple_src
    \/ Optimize
    \/ solve_return
    \/ update_graph

SpecSolve == InitSolve /\ [][NextSolve]_vars


\* ------------------------------------------------------------ claims

(* ---- the pre-clusterer, under SpecPre ---- *)

Range(s) == {s[t] : t \in 1..Len(s)}

\* the list preclustering returned has n_clusters pairwise distinct elements,
\* each a key of dc, and all of them when n_clusters = N
ReturnedListOK ==
    /\ Len(cluster_dc) = n_clusters
    /\ \A s, t \in 1..Len(cluster_dc) : s # t => cluster_dc[s] # cluster_dc[t]
    /\ Range(cluster_dc) \subseteq DOMAIN dc
    /\ n_clusters = n_dc => Range(cluster_dc) = DOMAIN dc

\* C1: for every K with 1 <= K <= N preclustering returns a list, and the
\* list has exactly K pairwise distinct elements, each a key of dc (a
\* permutation of the keys when K = N).
C1_ReturnsKDistinctDCs ==
    (n_clusters >= 1 /\ n_clusters <= n_dc) =>
        /\ pc # "failed"
        /\ pc = "done" => ReturnedListOK

\* C2: with K = 1 preclustering returns exactly one DC, and its demand
\* score is the maximum over all DCs.
C2_OneClusterReturnsMaxScore ==
    n_clusters = 1 =>
        /\ pc # "failed"
        /\ pc = "done" =>
             /\ Len(cluster_dc) = 1
             /\ \E a \in 1..n_dc :
                  /\ key_dc[a] = cluster_dc[1]
                  /\ \A b \in 1..n_dc : dc_dem[a] >= dc_dem[b]

\* C4: called with K > N or K <= 0, preclustering fails with InvalidInput on
\* entry: it takes no step other than failing, and the error is InvalidInput.
C4_InvalidKFailsOnEntry ==
    (n_clusters > n_dc \/ n_clusters <= 0) =>
        /\ pc \in {"start", "failed"}
        /\ pc = "failed" => (err = "InvalidInput" /\ d = <<>> /\ dc_dem = <<>>)

(* ---- the MIP builders, under SpecMIP ---- *)

Solved(v) == pc = "solved" /\ variant = v

\* the value of x[a,b,p] in the solution
X(a, b, p) == sol[<<"x", a, b, p>>]
Y(j) == sol[<<"y", j, 0, 0>>]
Z(j, k) == sol[<<"z", j, k, 0>>]

PlantArcs == plnt_to_dc
CustArcs == dc_to_cust

\* flow into DC j of product p, and of all products
Inflow(j, p) ==
    LET A == {t \in PlantArcs : t[2] = j /\ t[3] = p}
    IN SumOver(A, [t \in A |-> X(t[1], t[2], t[3])])
InflowAll(j) ==
    LET A == {t \in PlantArcs : t[2] = j}
    IN SumOver(A, [t \in A |-> X(t[1], t[2], t[3])])
\* flow out of DC j of product p, multiple-source
Outflow(j, p) ==
    LET A == {t \in CustArcs : t[1] = j /\ t[3] = p}
    IN SumOver(A, [t \in A |-> X(t[1], t[2], t[3])])
\* what customer k gets of product p, multiple-source
Delivered(k, p) ==
    LET A == {t \in CustArcs : t[2] = k /\ t[3] = p}
    IN SumOver(A, [t \in A |-> X(t[1], t[2], t[3])])
\* what plant i ships of product p
Shipped(i, p) ==
    LET A == {t \in PlantArcs : t[1] = i /\ t[3] = p}
    IN SumOver(A, [t \in A |-> X(t[1], t[2], t[3])])
\* what the customers assigned to DC j demand of product p, single-source
Assigned(j, p) ==
    SumOver(DOMAIN cust, [k \in DOMAIN cust |-> demand[<<k, p>>] * Z(j, k)])

\* C5: multiple-source, every feasible solution: for every (k,p) with
\* positive demand, the sum over the DCs of x[j,k,p] plus slack[k,p] equals
\* demand[k,p].
C5_DemandMetOrSlack ==
    Solved("multiple source") =>
        \A kp \in (DOMAIN cust) \X prod :
            demand[kp] > 0 =>
                Delivered(kp[1], kp[2]) + sol[<<"slack", kp[1], kp[2], 0>>] = demand[kp]

C5_Witness ==
    /\ Solved("multiple source")
    /\ \E kp \in (DOMAIN cust) \X prod : demand[kp] > 0 /\ Delivered(kp[1], kp[2]) = demand[kp]
    /\ \E kp \in (DOMAIN cust) \X prod : demand[kp] > 0 /\ sol[<<"slack", kp[1], kp[2], 0>>] > 0

\* C6: multiple-source, every feasible solution: a closed DC carries no
\* flow, neither on a plant arc into it nor on a customer arc out of it.
C6_ClosedDCNoFlow ==
    Solved("multiple source") =>
        \A j \in DOMAIN dc :
            Y(j) = 0 =>
                /\ \A t \in PlantArcs : t[2] = j => X(t[1], t[2], t[3]) = 0
                /\ \A t \in CustArcs : t[1] = j => X(t[1], t[2], t[3]) = 0

C6_Witness ==
    /\ Solved("multiple source")
    /\ \E j, j2 \in DOMAIN dc :
         /\ Y(j) = 0
         /\ \E t \in PlantArcs : t[2] = j
         /\ \E t \in CustArcs : t[1] = j
         /\ Y(j2) = 1
         /\ \E p \in prod : Inflow(j2, p) > 0 /\ Outflow(j2, p) > 0

\* C7: multiple-source, every feasible solution: for every opened DC j the
\* inflow over all plants and all products is at most dc_ub[j].
C7_OpenDCThroughput ==
    Solved("multiple source") =>
        \A j \in DOMAIN dc : Y(j) = 1 => InflowAll(j) <= dc_ub[j]

C7_Witness ==
    /\ Solved("multiple source")
    /\ \E j \in DOMAIN dc :
         /\ Y(j) = 1
         /\ InflowAll(j) = dc_ub[j]
         /\ \A p \in prod : \E t \in PlantArcs : t[2] = j /\ t[3] = p
         /\ \A p \in prod : \E t \in CustArcs : t[1] = j /\ t[3] = p

\* C8: single-source, every feasible solution: for every DC j the inflow
\* over all plants and all products is at most dc_ub[j] * y[j].
C8_SingleSourceThroughput ==
    Solved("single source") =>
        \A j \in DOMAIN dc : InflowAll(j) <= dc_ub[j] * Y(j)

\* C9: both variants, every feasible solution: for every plant i and product
\* p what i ships of p over all DCs is at most plnt_ub[i,p]; with
\* plnt_ub[i,p] = 0 there is no arc (i,j,p) and nothing is shipped.
C9_PlantCapacity ==
    pc = "solved" =>
        \A ip \in (DOMAIN plnt) \X prod :
            /\ Shipped(ip[1], ip[2]) <= plnt_ub[ip]
            /\ plnt_ub[ip] = 0 =>
                 /\ ~ \E t \in PlantArcs : t[1] = ip[1] /\ t[3] = ip[2]
                 /\ Shipped(ip[1], ip[2]) = 0

C9_Witness ==
    /\ Solved("multiple source")
    /\ \E ip \in (DOMAIN plnt) \X prod :
         /\ Cardinality(DOMAIN dc) > 1
         /\ Shipped(ip[1], ip[2]) = plnt_ub[ip]
         /\ plnt_ub[ip] > 0
    /\ \E ip \in (DOMAIN plnt) \X prod : plnt_ub[ip] = 0

\* C10: every feasible solution, for every DC j and product p: the inflow
\* from the plants equals the outflow to the customers (multiple-source),
\* or the demand of the customers assigned to j (single-source).
C10_FlowConservation ==
    /\ Solved("multiple source") =>
         \A jp \in (DOMAIN dc) \X prod : Inflow(jp[1], jp[2]) = Outflow(jp[1], jp[2])
    /\ Solved("single source") =>
         \A jp \in (DOMAIN dc) \X prod : Inflow(jp[1], jp[2]) = Assigned(jp[1], jp[2])

C10_Witness ==
    /\ Solved("single source")
    /\ \E jp \in (DOMAIN dc) \X prod :
         /\ Inflow(jp[1], jp[2]) > 0
         /\ \E k \in DOMAIN cust : Z(jp[1], k) = 1 /\ demand[<<k, jp[2]>>] > 0
    /\ \E k \in DOMAIN cust : sol[<<"slack", k, 0, 0>>] = 1

\* the number of opened DCs
Opened == SumOver(DOMAIN dc, [j \in DOMAIN dc |-> Y(j)])

\* C11: any variant, every feasible solution: each y[j] is 0 or 1 and the
\* number of opened DCs is at most dc_num.
C11_AtMostDcNumOpened ==
    pc = "solved" =>
        /\ \A j \in DOMAIN dc : Y(j) \in {0, 1}
        /\ Opened <= dc_num

C11_Witness ==
    /\ pc = "solved"
    /\ dc_num > 0
    /\ Opened = dc_num
    /\ \E j \in DOMAIN dc : Y(j) = 0

\* all DCs closed, all flows zero, the slack absorbing all demand
ZeroSolution ==
    [v \in mvars |->
        IF Kind(v) = "slack"
        THEN IF variant = "multiple source" THEN demand[<<v[2], v[3]>>] ELSE 1
        ELSE 0]

\* C12: both variants, every instance with demand >= 0, plant_ub >= 0,
\* dc_ub > 0 and dc_num >= 0: the model that was built has a feasible
\* solution, the one with all DCs closed, all flows zero and the slack
\* absorbing all demand.
C12_AlwaysFeasible ==
    pc = "built" =>
        /\ \A c \in constrs : Holds(c, ZeroSolution)
        /\ \A v \in mvars : ZeroSolution[v] \in Values(v)

C12_Witness ==
    /\ pc = "built"
    /\ variant = "single source"
    /\ dc_num = 0
    /\ \A ip \in DOMAIN plnt_ub : plnt_ub[ip] = 0
    /\ \E kp \in DOMAIN demand : demand[kp] > 0
    /\ \A c \in constrs : Holds(c, ZeroSolution)

\* the x variables of the model that was built
XVars == {v \in mvars : Kind(v) = "x"}

KeysDisjoint ==
    /\ plnt_to_dc \cap dc_to_cust = {}
    /\ Cardinality(XVars) = Cardinality(plnt_to_dc) + Cardinality(dc_to_cust)

\* C16 as stated: multiple-source, whenever the plant identifiers and the
\* customer identifiers are disjoint, no key of x is both a plant arc and a
\* customer arc, and there are |P| + |C| x variables.
C16_DisjointPlantsAndCustomers ==
    (pc = "built" /\ variant = "multiple source"
     /\ (DOMAIN plnt) \cap (DOMAIN cust) = {})
        => KeysDisjoint

\* C16: multiple-source, whenever no DC identifier is also a plant
\* identifier, or no DC identifier is also a customer identifier, no key of
\* x is both a plant arc and a customer arc, and there are |P| + |C| x
\* variables.
C16_DisjointFromDCs ==
    (pc = "built" /\ variant = "multiple source"
     /\ ((DOMAIN plnt) \cap (DOMAIN dc) = {} \/ (DOMAIN dc) \cap (DOMAIN cust) = {}))
        => KeysDisjoint

C16_Witness ==
    /\ pc = "built" /\ variant = "multiple source"
    /\ (DOMAIN plnt) \cap (DOMAIN dc) # {}
    /\ (DOMAIN dc) \cap (DOMAIN cust) = {}
    /\ \E t \in plnt_to_dc : t[1] \in DOMAIN dc
    /\ dc_to_cust # {}
    /\ KeysDisjoint

\* the DCs customer k is assigned to
AssignedTo(k) == {j \in DOMAIN dc : Z(j, k) = 1}

\* C17: single-source, every feasible solution: each customer is assigned
\* to at most one DC, to exactly one when its slack is 0, and a DC with a
\* customer assigned to it is open.
C17_OneDCPerCustomer ==
    Solved("single source") =>
        \A k \in DOMAIN cust :
            /\ Cardinality(AssignedTo(k)) <= 1
            /\ sol[<<"slack", k, 0, 0>>] = 0 => Cardinality(AssignedTo(k)) = 1
            /\ \A j \in AssignedTo(k) : Y(j) = 1

C17_Witness ==
    /\ Solved("single source")
    /\ Cardinality(DOMAIN dc) > 1
    /\ \E k \in DOMAIN cust :
         sol[<<"slack", k, 0, 0>>] = 0 /\ Cardinality(AssignedTo(k)) = 1
    /\ \E k \in DOMAIN cust :
         sol[<<"slack", k, 0, 0>>] > 0 /\ AssignedTo(k) = {}
    /\ \E j \in DOMAIN dc : Y(j) = 1 /\ \A k \in DOMAIN cust : Z(j, k) = 0

(* ---- the objective, under SpecMIP and SpecCosted ---- *)

\* the solver ended with an optimal solution of variant v
Optimal(v) == Solved(v) /\ status = "OPTIMAL"

ObjVal == Eval(objective, sol)
SlackVars == {v \in mvars : Kind(v) = "slack"}
NoSlack(s) == \A v \in SlackVars : s[v] = 0
ZeroDemand == \A kp \in DOMAIN demand : demand[kp] = 0

\* C13: multiple-source: when some solution with all slack = 0 satisfies
\* every constraint, every optimal solution has all slack = 0; put the other
\* way round, an optimal solution with a positive slack means that no
\* solution without slack is feasible.
C13_SlackOnlyIfInfeasible ==
    (Optimal("multiple source") /\ ~NoSlack(sol)) =>
        ~ \E s \in Feasible(mvars, constrs) : NoSlack(s)

\* C14: multiple-source, all demand 0: the optimal objective value is 0 and
\* every optimal solution opens no DC and carries no flow.
C14_ZeroDemandMultiple ==
    (Optimal("multiple source") /\ ZeroDemand) =>
        /\ ObjVal = 0
        /\ \A j \in DOMAIN dc : Y(j) = 0
        /\ \A v \in XVars : sol[v] = 0

C14_Witness ==
    /\ Optimal("multiple source") /\ ZeroDemand
    /\ dc_num > 0
    /\ Cardinality(plnt_to_dc) > 1
    /\ ObjVal = 0
    /\ \A j \in DOMAIN dc : Y(j) = 0

\* C15: single-source, all demand 0, at least one customer and one
\* candidate DC, dc_num >= 1: the optimal objective value is 0 and no DC is
\* opened.
C15_ZeroDemandSingle ==
    (Optimal("single source") /\ ZeroDemand
     /\ DOMAIN cust # {} /\ DOMAIN dc # {} /\ dc_num >= 1) =>
        /\ ObjVal = 0
        /\ \A j \in DOMAIN dc : Y(j) = 0

\* the delivery coefficient of z[j,k] summed across products, each product
\* with its own demand, or each product with the customer's total demand
DelCoefOwn(j, k) ==
    SumOver(prod, [p \in prod |-> weight[p] * del_cost[<<j, k>>] * demand[<<k, p>>]])
DelCoefTotal(j, k) ==
    SumOver(prod, [p \in prod |-> weight[p] * del_cost[<<j, k>>] * total_demand[k]])

\* C18: single-source objective: the coefficient of z[j,k] is a sum across
\* the products, so it takes in the weight of every product the customer
\* demands, with del_cost[j,k] and the customer's demand.
C18_DeliveryTermSummed ==
    (pc = "built" /\ variant = "single source") =>
        \A jk \in (DOMAIN dc) \X (DOMAIN cust) :
            objective[ZV(jk[1], jk[2])] \in
                {DelCoefOwn(jk[1], jk[2]), DelCoefTotal(jk[1], jk[2])}

\* the parts of the multiple-source objective, arc by arc
TpCost == SumOver(PlantArcs, [t \in PlantArcs |->
              weight[t[3]] * tp_cost[<<t[1], t[2]>>] * X(t[1], t[2], t[3])])
DelCost == SumOver(CustArcs, [t \in CustArcs |->
              weight[t[3]] * del_cost[<<t[1], t[2]>>] * X(t[1], t[2], t[3])])
FixedCost == SumOver(DOMAIN dc, [j \in DOMAIN dc |-> dc_fc[j] * Y(j)])
VarCost == SumOver(PlantArcs, [t \in PlantArcs |-> dc_vc[t[2]] * X(t[1], t[2], t[3])])
SlackSum == SumOver(SlackVars, [v \in SlackVars |-> sol[v]])

\* the objective with penalty M in multiple-source and M1 in single-source
ObjectiveWith(M, M1) ==
    /\ Solved("multiple source") =>
         ObjVal = TpCost + DelCost + FixedCost + VarCost + M * SlackSum
    /\ (pc = "built" /\ variant = "single source") =>
         \A k \in DOMAIN cust : objective[SlackK(k)] = M1

Sorted(s) == \A i \in 1..(Len(s) - 1) : s[i] < s[i + 1]

\* C20: after solve, the list of opened DCs holds exactly the candidates j
\* with y[j].value > 0.5, and it is ordered by identifier.
C20_OpenedListSorted ==
    pc = "returned" =>
        /\ Elems(dcs) = {j \in Elems(cluster_dc) : 2 * Y(j) > 1}
        /\ Sorted(dcs)

\* the row of the flow table for the key of the x variable v
RowOf(v) == [Customer |-> v[3], DistributionCenter |-> v[2], Product |-> v[4]]

\* C21: the flow records handed to the caller hold an entry for x[i,j,p] if
\* and only if its solution value is greater than epsilon (here: positive).
C21_FlowRecordsAboveEps ==
    pc = "table" =>
        \A v \in XVars : (RowOf(v) \in table_data) <=> (sol[v] > 0)

\* C22: the model solve builds is the one of the requested variant.
C22_RequestedVariantBuilt ==
    (requested # "none" /\ pc \in {"built", "solved", "returned", "table"}) =>
        /\ variant = requested
        /\ requested = "single source" => mvars = SS_Vars
        /\ requested = "multiple source" => mvars = MS_Vars

(* ---- calls the builders do not rule out, under SpecUnchecked ---- *)

InvalidArgs ==
    \/ dc_num <= 0
    \/ \E kp \in DOMAIN demand : demand[kp] < 0
    \/ DOMAIN cust = {}

\* C23: called with dc_num <= 0, a negative demand or no customer, a builder
\* fails with InvalidInput on entry and returns no model (stated for the
\* calls whose plnt_ub is complete, where nothing else ends the builder).
C23_BuildersValidate ==
    (InvalidArgs /\ ~MissingUB) =>
        /\ pc \in {"call", "failed"}
        /\ pc = "failed" => (err = "InvalidInput" /\ mvars = {} /\ constrs = {})

\* C29: when plnt_ub has no entry for some plant and product, the builders
\* create no arc for that plant and product and still build the model.
C29_MissingCapacityIsZero ==
    (MissingUB /\ pc # "call") =>
        /\ pc \in {"built", "solved"}
        /\ err = "none"
        /\ \A ip \in ((DOMAIN plnt) \X prod) \ DOMAIN plnt_ub :
             ~ \E t \in plnt_to_dc : t[1] = ip[1] /\ t[3] = ip[2]

(* ---- single-source slack, under SpecMIP ---- *)

\* no plant can supply product p
NoSupply(p) == \A i \in DOMAIN plnt : plnt_ub[<<i, p>>] = 0

\* C30: single-source, every feasible solution: slack[k] is 0 or 1, and a
\* customer with positive demand for a product that no plant can supply has
\* slack[k] = 1 and is assigned to no DC.
C30_SlackAllOrNothing ==
    Solved("single source") =>
        \A k \in DOMAIN cust :
            /\ sol[<<"slack", k, 0, 0>>] \in {0, 1}
            /\ (\E p \in prod : demand[<<k, p>>] > 0 /\ NoSupply(p)) =>
                 /\ sol[<<"slack", k, 0, 0>>] = 1
                 /\ AssignedTo(k) = {}

C30_Witness ==
    /\ Solved("single source")
    /\ \E k \in DOMAIN cust :
         /\ \E p \in prod : demand[<<k, p>>] > 0 /\ NoSupply(p)
         /\ \E p \in prod : demand[<<k, p>>] > 0 /\ ~NoSupply(p)
         /\ sol[<<"slack", k, 0, 0>>] = 1
    /\ \E k \in DOMAIN cust : sol[<<"slack", k, 0, 0>>] = 0 /\ AssignedTo(k) # {}
    /\ \E j \in DOMAIN dc : Y(j) = 1

(* ---- scoring, representatives and coverage, under SpecPre ---- *)

\* the DCs at the least integer distance from customer z, by input index
Nearest(z) ==
    {a \in 1..n_dc :
        \A b \in 1..n_dc : IntKm(cust[z], dc[key_dc[a]]) <= IntKm(cust[z], dc[key_dc[b]])}
FirstNearest(z) == CHOOSE a \in Nearest(z) : \A b \in Nearest(z) : a <= b

AllDemand == SumOver(DOMAIN demand, demand)

\* C25: each customer's total demand is added to the score of exactly one
\* DC, the first in input order among those at the least integer distance;
\* the scores add up to the total demand.
C25_ScoreGoesToFirstNearest ==
    pc \in {"scored", "fitted", "failed", "done"} =>
        /\ \A a \in 1..n_dc :
             dc_dem[a] = SumOver({z \in DOMAIN cust : FirstNearest(z) = a},
                                 [z \in DOMAIN cust |-> TotalDemand(z)])
        /\ SumOver(1..n_dc, dc_dem) = AllDemand

C25_Witness ==
    /\ pc = "scored"
    /\ \E z \in DOMAIN cust :
         /\ Cardinality(Nearest(z)) > 1
         /\ TotalDemand(z) > 0
         /\ \E a \in Nearest(z) : a # FirstNearest(z) /\ dc_dem[a] > 0
    /\ AllDemand > 1

\* the members of cluster c, by input index
Members(c) == {a \in 1..n_dc : labels[a] = c}
IndexOf(key) == CHOOSE a \in 1..n_dc : key_dc[a] = key

\* C26: for each label c in 0..K-1 the c-th element of the output is a DC
\* of cluster c with the greatest score of the cluster, the one of lowest
\* input index among these; the K returned DCs lie in K different clusters.
C26_RepresentativeIsFirstMax ==
    pc = "done" =>
        /\ Len(cluster_dc) = n_clusters
        /\ \A c \in 0..(n_clusters - 1) :
             LET a == IndexOf(cluster_dc[c + 1])
             IN /\ a \in Members(c)
                /\ \A b \in Members(c) : dc_dem[b] <= dc_dem[a]
                /\ \A b \in Members(c) : dc_dem[b] = dc_dem[a] => a <= b
        /\ \A s, t \in 1..Len(cluster_dc) :
             s # t => labels[IndexOf(cluster_dc[s])] # labels[IndexOf(cluster_dc[t])]

C26_Witness ==
    /\ pc = "done"
    /\ n_clusters = 2
    /\ \E c \in 0..1 :
         \E a, b \in Members(c) :
            /\ a < b
            /\ dc_dem[a] = dc_dem[b]
            /\ dc_dem[a] > 0
            /\ cluster_dc[c + 1] = key_dc[a]

\* the two groups G and its complement are apart: every distance within a
\* group is smaller than every distance between the groups
Apart(G) ==
    LET H == (1..n_dc) \ G
        Within == {<<a, b>> \in (G \X G) \cup (H \X H) : a # b}
    IN /\ G # {} /\ H # {}
       /\ \A w \in Within : \A g \in G, h \in H : d[w[1]][w[2]] < d[g][h]

\* C27: K = 2 and the DCs split into two groups that are apart: the
\* clusters are the two groups, and the two returned DCs lie in different
\* groups.
C27_TwoGroupsAreTheClusters ==
    (pc \in {"fitted", "done"} /\ n_clusters = 2) =>
        \A G \in SUBSET (1..n_dc) :
            Apart(G) =>
                /\ \A a, b \in 1..n_dc : (labels[a] = labels[b]) <=> ((a \in G) <=> (b \in G))
                /\ pc = "done" =>
                     (IndexOf(cluster_dc[1]) \in G) # (IndexOf(cluster_dc[2]) \in G)

C27_Witness ==
    /\ pc = "done" /\ n_clusters = 2
    /\ \E G \in SUBSET (1..n_dc) :
         /\ Apart(G)
         /\ \E a, b \in G : a # b /\ d[a][b] > 0
         /\ (IndexOf(cluster_dc[1]) \in G) # (IndexOf(cluster_dc[2]) \in G)

(* ---- the cardinality-binding scenario, under SpecBinding ---- *)

Closer(j, i) == \A k \in DOMAIN cust : Km(dc[j], cust[k]) < Km(dc[i], cust[k])
Suffice ==
    /\ \A j \in DOMAIN dc :
         dc_ub[j] >= SumOver(DOMAIN demand, [kp \in DOMAIN demand |-> demand[kp]])
    /\ \A p \in prod :
         SumOver(DOMAIN plnt, [i \in DOMAIN plnt |-> plnt_ub[<<i, p>>]])
           >= SumOver(DOMAIN cust, [k \in DOMAIN cust |-> demand[<<k, p>>]])
Binding ==
    /\ Cardinality(DOMAIN dc) = 2
    /\ Cardinality(DOMAIN cust) = 1
    /\ Cardinality(DOMAIN plnt) = 1
    /\ dc_num = 1
    /\ Suffice
Route(j) ==
    SumOver((DOMAIN plnt) \X (DOMAIN cust),
            [ik \in (DOMAIN plnt) \X (DOMAIN cust) |->
                tp_cost[<<ik[1], j>>] + del_cost[<<j, ik[2]>>]])

C24_DemandTotalAndClosed ==
    pc = "instance" =>
        /\ \A kp \in DOMAIN demand : kp[1] \in DOMAIN cust /\ kp[2] \in prod
        /\ \A k \in DOMAIN cust : \A p \in prod : <<k, p>> \in DOMAIN demand

C24_Witness ==
    /\ pc = "instance"
    /\ Cardinality(DOMAIN cust) > 1
    /\ Cardinality(prod) > 1
    /\ Cardinality(DOMAIN demand) = Cardinality(DOMAIN cust) * Cardinality(prod)
    /\ \E kp \in DOMAIN demand : demand[kp] = MinDemand
    /\ \E kp \in DOMAIN demand : demand[kp] = MaxDemand


=============================================================================
